---- MODULE Spec2Model ----
(***************************************************************************)
(* Model of the PDF editor bot: the quota bookkeeping of DatabaseManager   *)
(* (operations_log table, Redis counter cache) and the update handlers of  *)
(* BotHandlers registered in main(); the methods of PDFProcessor, and the  *)
(* FileManager and ValidationHelper of utils.py, as they answer a call.    *)
(*                                                                         *)
(* Handlers are atomic actions: main() builds the Application without      *)
(* concurrent_updates, so updates are dispatched one after the other and a *)
(* handler runs to completion before the next update is looked at.         *)
(* Every call to Supabase, Redis or Telegram may raise; which call raises  *)
(* is an input of the action.                                              *)
(***************************************************************************)
EXTENDS Integers, Sequences, FiniteSets, Bags

VARIABLES
    now,             \* the wall clock, in seconds
    users,           \* Supabase table users: user_id -> row or NoRow
    operations_log,  \* Supabase table operations_log: a bag of rows
    cache,           \* Redis: key -> [value, expires] or NoValue
    keyboards,       \* per user: file ids whose operation keyboard is displayed
    last,            \* the update handled last and what the handler did
    staged,          \* FileManager: the files under base_path, by path
    job              \* the call of a PDFProcessor or ValidationHelper method
                     \* made last: its arguments and what it returned or raised

vars == <<now, users, operations_log, cache, keyboards, last, staged, job>>

(* No handler registered in main() calls FileManager, ValidationHelper or  *)
(* a method of PDFProcessor other than extract_text, whose result the      *)
(* handler keeps in a local: the handlers leave staged and job alone.      *)
library == <<staged, job>>

----------------------------------------------------------------------------
(* Bounds of the model *)

MaxLog == 5
MaxTicks == 1
StartClock == 43200
ClockStep == 64800

(* Program constants *)

FREE_DAILY_LIMIT == 5
PREMIUM_DAILY_LIMIT == 100
MAX_FILE_SIZE == 52428800
CACHE_TTL == 86400
SecondsPerDay == 86400

Users == {1}

(* None, for a users row, a Redis value and a usage that was not computed *)
NoRow == [found |-> FALSE, is_premium |-> FALSE]
NoValue == [found |-> FALSE, value |-> <<>>, expires |-> 0]
NoUsage == -1

----------------------------------------------------------------------------
(* Strings are sequences of one-character strings. *)

Digits == <<"0", "1", "2", "3", "4", "5", "6", "7", "8", "9">>

RECURSIVE IntToStr(_)
IntToStr(n) ==
    IF n < 10 THEN <<Digits[n + 1]>>
    ELSE IntToStr(n \div 10) \o <<Digits[(n % 10) + 1]>>

DigitValue(c) == CHOOSE d \in 0..9 : Digits[d + 1] = c

RECURSIVE StrToInt(_)
StrToInt(s) ==
    IF Len(s) = 1 THEN DigitValue(s[1])
    ELSE 10 * StrToInt(SubSeq(s, 1, Len(s) - 1)) + DigitValue(s[Len(s)])

Lower(c) ==
    CASE c = "P" -> "p"
      [] c = "D" -> "d"
      [] c = "F" -> "f"
      [] c = "A" -> "a"
      [] c = "B" -> "b"
      [] OTHER -> c

LowerStr(s) == [i \in 1..Len(s) |-> Lower(s[i])]

EndsWith(s, suffix) ==
    /\ Len(s) >= Len(suffix)
    /\ SubSeq(s, Len(s) - Len(suffix) + 1, Len(s)) = suffix

----------------------------------------------------------------------------
(* Time.  datetime.date.today() is the calendar day of the clock, and      *)
(* today's ISO date compares with the ISO timestamps of the log rows as    *)
(* the first second of the day does with their seconds.                    *)

Today(t) == t \div SecondsPerDay

DayStart(day) == day * SecondsPerDay

MaxClock == StartClock + MaxTicks * ClockStep

Days == 0..Today(MaxClock)

----------------------------------------------------------------------------
(* DatabaseManager *)

(* A row of operations_log.  The columns operation and details are left   *)
(* out: no query of the program selects on them or reads them.            *)
LogRow(user_id, t) == [user_id |-> user_id, timestamp |-> t]

RECURSIVE SumOf(_, _)
SumOf(bag, rows) ==
    IF rows = {} THEN 0
    ELSE LET r == CHOOSE x \in rows : TRUE
         IN bag[r] + SumOf(bag, rows \ {r})

(* select('*').eq('user_id', user_id).gte('timestamp', today), then len() *)
SelectSince(log, user_id, today) ==
    {r \in DOMAIN log : r.user_id = user_id /\ r.timestamp >= DayStart(today)}

CountSince(log, user_id, today) == SumOf(log, SelectSince(log, user_id, today))

get_user(table, user_id, ok) == IF ok THEN table[user_id] ELSE NoRow

(* insert into users; user_id is the key of the table, so a second insert  *)
(* for the same user raises, and create_user swallows what is raised.      *)
create_user(table, user_id, ok) ==
    IF ok /\ table[user_id] = NoRow
    THEN [table EXCEPT ![user_id] = [found |-> TRUE, is_premium |-> FALSE]]
    ELSE table

log_operation(log, user_id, t, ok) ==
    IF ok THEN log (+) SetToBag({LogRow(user_id, t)}) ELSE log

(* CacheKey with the day left out of the key *)
CacheKeyNoDay(user_id, today) == <<"daily_usage", user_id, 0>>

CacheKey(user_id, today) == <<"daily_usage", user_id, today>>

Keys == {CacheKey(u, d) : u \in Users, d \in Days}

(* `if cached_usage:` is true of a non-empty byte string, b"0" included *)
Truthy(entry) == entry.found /\ Len(entry.value) > 0

UsageFaults == {"none", "redis_get", "select", "setex"}

(* fault names the call that raises when it is reached; raised is the one  *)
(* that did raise.                                                         *)
get_daily_usage(c, log, user_id, t, fault) ==
    LET today == Today(t)
        key == CacheKey(user_id, today)
        failed(f) == [usage |-> 0, cache |-> c, hit |-> FALSE, raised |-> f]
    IN  IF fault = "redis_get" THEN failed("redis_get")
        ELSE IF Truthy(c[key])
        THEN [usage |-> StrToInt(c[key].value), cache |-> c,
              hit |-> TRUE, raised |-> "none"]
        ELSE IF fault = "select" THEN failed("select")
        ELSE LET usage == CountSince(log, user_id, today)
             IN  IF fault = "setex" THEN failed("setex")
                 ELSE [usage |-> usage,
                       cache |-> [c EXCEPT ![key] =
                                    [found |-> TRUE,
                                     value |-> IntToStr(usage),
                                     expires |-> t + CACHE_TTL]],
                       hit |-> FALSE, raised |-> "none"]

----------------------------------------------------------------------------
(* PDFProcessor.extract_text.  A document is "corrupt" or its pages; a     *)
(* page is the text pdfplumber extracts from it, NoText when it extracts   *)
(* None.                                                                   *)

NoText == <<"None">>

Whitespace == {" ", "\n"}

RECURSIVE LStrip(_)
LStrip(s) ==
    IF s # <<>> /\ Head(s) \in Whitespace THEN LStrip(Tail(s)) ELSE s

RECURSIVE RStrip(_)
RStrip(s) ==
    IF s # <<>> /\ s[Len(s)] \in Whitespace
    THEN RStrip(SubSeq(s, 1, Len(s) - 1)) ELSE s

Strip(s) == RStrip(LStrip(s))

RECURSIVE JoinPages(_)
JoinPages(pages) ==
    IF pages = <<>> THEN <<>>
    ELSE (IF Head(pages) = NoText THEN <<>> ELSE Head(pages))
         \o <<"\n", "\n">> \o JoinPages(Tail(pages))

extract_text(pages) == Strip(JoinPages(pages))

----------------------------------------------------------------------------
(* FileManager *)

(* base_path holds no file *)
NoFiles == <<>>

SecondsPerHour == 3600

(* os.path.splitext: the extension starts at the last dot, unless the name *)
(* has no dot or only leading ones.                                        *)
RECURSIVE LastDot(_)
LastDot(name) ==
    IF name = <<>> THEN 0
    ELSE IF name[Len(name)] = "." THEN Len(name)
    ELSE LastDot(SubSeq(name, 1, Len(name) - 1))

RECURSIVE LeadingDots(_)
LeadingDots(name) ==
    IF name # <<>> /\ Head(name) = "." THEN 1 + LeadingDots(Tail(name)) ELSE 0

splitext(original_name) ==
    LET dot == LastDot(original_name)
    IN  IF dot > LeadingDots(original_name)
        THEN [name |-> SubSeq(original_name, 1, dot - 1),
              ext |-> SubSeq(original_name, dot, Len(original_name))]
        ELSE [name |-> original_name, ext |-> <<>>]

(* strftime("%Y%m%d_%H%M%S"): the date and the second of the day *)
Timestamp(t) == IntToStr(Today(t)) \o <<"_">> \o IntToStr(t % SecondsPerDay)

(* hexdigest()[:8] of the MD5 of a text.  The digest is a token of the     *)
(* text hashed: two texts have the same digest when they are equal.        *)
Md5Prefix(text) == [md5 |-> text]

(* The name f"{name}_{timestamp}_{unique_id}{ext}", by its four parts *)
generate_unique_filename(original_name, user_id, t) ==
    LET timestamp == Timestamp(t)
        unique_id == Md5Prefix(IntToStr(user_id) \o original_name \o timestamp)
        parts == splitext(original_name)
    IN  [name |-> parts.name, timestamp |-> timestamp,
         unique_id |-> unique_id, ext |-> parts.ext]

user_dir(user_id) == <<"user_", user_id>>

(* A path under base_path: the directory and the file name *)
FilePath(dir, filename) == <<dir, filename>>

(* open(file_path, 'wb') makes the file or truncates the one there is; the *)
(* write sets its content and its modification time.                       *)
save_temp_file(files, file_data, filename, user_id, t) ==
    LET file_path == FilePath(user_dir(user_id),
                              generate_unique_filename(filename, user_id, t))
    IN  [path |-> file_path,
         files |-> [q \in DOMAIN files \cup {file_path} |->
                       IF q = file_path
                       THEN [mtime |-> t, data |-> file_data]
                       ELSE files[q]]]

(* cleanup_user_files that walks every directory under base_path *)
cleanup_every_user(files, user_id, older_than_hours, t) ==
    LET cutoff_time == t - older_than_hours * SecondsPerHour
        old == {q \in DOMAIN files : files[q].mtime < cutoff_time}
    IN  [deleted |-> old,
         files |-> [q \in DOMAIN files \ old |-> files[q]]]

(* The files of user_dir whose modification time is before the cutoff are  *)
(* unlinked; a user without a directory has no file and nothing is done.   *)
cleanup_user_files(files, user_id, older_than_hours, t) ==
    LET cutoff_time == t - older_than_hours * SecondsPerHour
        old == {q \in DOMAIN files :
                   /\ q[1] = user_dir(user_id)
                   /\ files[q].mtime < cutoff_time}
    IN  [deleted |-> old,
         files |-> [q \in DOMAIN files \ old |-> files[q]]]

----------------------------------------------------------------------------
(* The methods of PDFProcessor as functions of their arguments *)

(* No call was made *)
NoJob == [op |-> "none"]

(* The bytes of a PDF, by what PdfReader finds in them: whether they parse, *)
(* the password they are encrypted with (none: <<>>) and the pages, each   *)
(* page being the text pdfplumber extracts from it.                        *)
Pdf(pages) == [readable |-> TRUE, password |-> <<>>, pages |-> pages]

Encrypted(pages, password) ==
    [readable |-> TRUE, password |-> password, pages |-> pages]

Garbage == [readable |-> FALSE, password |-> <<>>, pages |-> <<>>]

(* What a call gives: the value returned, or the exception raised.  Every  *)
(* method catches what its body raises and raises Exception(f"...: {e}"),  *)
(* so the type is Exception and the cause is left in the message only.     *)
Returned(value) == [ok |-> TRUE, value |-> value, error |-> "none", cause |-> "none"]

Raised(cause) == [ok |-> FALSE, value |-> <<>>, error |-> "Exception", cause |-> cause]

(* PdfReader(...) and reader.pages: the bytes must parse, and the pages of *)
(* an encrypted file are handed out only after decrypt() with its password *)
reader_pages(pdf_bytes, password) ==
    IF ~pdf_bytes.readable THEN Raised("PdfReadError")
    ELSE IF pdf_bytes.password # <<>> /\ pdf_bytes.password # password
    THEN Raised("FileNotDecryptedError")
    ELSE Returned(pdf_bytes.pages)

(* merger.append that leaves out an input it cannot read *)
append_readable(merged, pdf_bytes) ==
    LET r == reader_pages(pdf_bytes, <<>>)
    IN  IF r.ok THEN Returned(merged \o r.value) ELSE Returned(merged)

(* merger.append that puts the pages of the input before those appended *)
append_in_front(merged, pdf_bytes) ==
    LET r == reader_pages(pdf_bytes, <<>>)
    IN  IF r.ok THEN Returned(r.value \o merged) ELSE r

(* merger.append(pdf_stream): the pages of the input, after those appended *)
append(merged, pdf_bytes) ==
    LET r == reader_pages(pdf_bytes, <<>>)
    IN  IF r.ok THEN Returned(merged \o r.value) ELSE r

RECURSIVE merge_loop(_, _)
merge_loop(merged, pdf_files) ==
    IF pdf_files = <<>> THEN Returned(merged)
    ELSE LET r == append(merged, Head(pdf_files))
         IN  IF r.ok THEN merge_loop(r.value, Tail(pdf_files)) ELSE r

merge_pdfs(pdf_files) ==
    LET r == merge_loop(<<>>, pdf_files)
    IN  IF r.ok THEN Returned(Pdf(r.value)) ELSE r

(* reader.pages[page_num]: a negative index counts from the end, and an    *)
(* index outside the pages raises IndexError.                              *)
page_at(pages, page_num) ==
    IF page_num >= Len(pages) \/ page_num < 0 - Len(pages)
    THEN Raised("IndexError")
    ELSE IF page_num >= 0 THEN Returned(pages[page_num + 1])
    ELSE Returned(pages[Len(pages) + page_num + 1])

(* for page_num in range(start, stop): writer.add_page(reader.pages[...]) *)
RECURSIVE add_pages(_, _, _)
add_pages(pages, start, stop) ==
    IF start >= stop THEN Returned(<<>>)
    ELSE LET page == page_at(pages, start)
             rest == add_pages(pages, start + 1, stop)
         IN  IF ~page.ok THEN page
             ELSE IF ~rest.ok THEN rest
             ELSE Returned(<<page.value>> \o rest.value)

(* range_stop without the clamp to the page count *)
range_stop_unclamped(end, total_pages) == end

(* min(end, total_pages) *)
range_stop(end, total_pages) == IF end < total_pages THEN end ELSE total_pages

RECURSIVE split_loop(_, _)
split_loop(pages, page_ranges) ==
    IF page_ranges = <<>> THEN Returned(<<>>)
    ELSE LET start == Head(page_ranges)[1]
             end == Head(page_ranges)[2]
             part == add_pages(pages, start, range_stop(end, Len(pages)))
             rest == split_loop(pages, Tail(page_ranges))
         IN  IF ~part.ok THEN part
             ELSE IF ~rest.ok THEN rest
             ELSE Returned(<<Pdf(part.value)>> \o rest.value)

(* page_ranges is <<>> for None and for the empty list: `not page_ranges` *)
split_pdf(pdf_bytes, page_ranges) ==
    LET r == reader_pages(pdf_bytes, <<>>)
    IN  IF ~r.ok THEN r
        ELSE LET total_pages == Len(r.value)
                 ranges == IF page_ranges = <<>>
                           THEN [i \in 1..total_pages |-> <<i - 1, i>>]
                           ELSE page_ranges
             IN  split_loop(r.value, ranges)

(* PDFProcessor.extract_text on the bytes: pdfplumber.open raises on bytes *)
(* that do not parse and on an encrypted file.                             *)
extract_text_bytes(pdf_bytes) ==
    LET r == reader_pages(pdf_bytes, <<>>)
    IN  IF r.ok THEN Returned(extract_text(r.value)) ELSE r

(* writer.encrypt(password): the user password of the output *)
encrypt_pdf(pdf_bytes, password) ==
    LET r == reader_pages(pdf_bytes, <<>>)
    IN  IF r.ok THEN Returned(Encrypted(r.value, password)) ELSE r

(* reader.decrypt(password) does not raise on a wrong password: the pages  *)
(* are then not handed out, and reader.pages raises.                       *)
decrypt_pdf(pdf_bytes, password) ==
    LET r == reader_pages(pdf_bytes, password)
    IN  IF r.ok THEN Returned(Pdf(r.value)) ELSE r

----------------------------------------------------------------------------
(* ValidationHelper *)

MinPasswordLen == 4
MaxPasswordLen == 128

validate_password(password) ==
    IF Len(password) < MinPasswordLen THEN <<FALSE, "too_short">>
    ELSE IF Len(password) > MaxPasswordLen THEN <<FALSE, "too_long">>
    ELSE <<TRUE, "valid">>

----------------------------------------------------------------------------
(* The updates the transport delivers.  filters.Document.PDF passes a      *)
(* document by its MIME type: its file name may end in anything.           *)

PdfName == <<"a", ".", "p", "d", "f">>
UpperName == <<"B", ".", "P", "D", "F">>
TxtName == <<"a", ".", "t", "x", "t">>

Documents ==
    { [file_id |-> "fText", file_name |-> PdfName, file_size |-> 1],
      [file_id |-> "fScan", file_name |-> UpperName, file_size |-> MAX_FILE_SIZE],
      [file_id |-> "fBad", file_name |-> PdfName, file_size |-> 2],
      [file_id |-> "fTxt", file_name |-> TxtName, file_size |-> 1],
      [file_id |-> "fBig", file_name |-> PdfName, file_size |-> MAX_FILE_SIZE + 1] }

FileIds == {d.file_id : d \in Documents}

(* What Telegram serves for a file id *)
Content(file_id) ==
    CASE file_id = "fText" -> << <<" ", "h", "i", " ">>, NoText >>
      [] file_id = "fScan" -> << NoText >>
      [] OTHER -> <<>>

Corrupt(file_id) == file_id = "fBad"

(* The buttons of the operation keyboard, by the prefix of callback_data *)
Buttons == {"extract_text_", "extract_images_", "compress_", "watermark_",
            "encrypt_", "decrypt_", "split_", "info_"}

(* The buttons of the /start and /help keyboards that carry no file id *)
MenuButtons == {"main_menu", "help", "my_stats", "premium", "merge_pdf"}

Seen(handler, user, outcome, usage, fault, engine) ==
    [handler |-> handler, user |-> user, outcome |-> outcome,
     usage |-> usage, fault |-> fault, engine |-> engine]

----------------------------------------------------------------------------
(* The bot starts at StartClock with empty tables and an empty cache.  No  *)
(* code of the program sets is_premium: the rows start_command inserts are *)
(* the only rows, so every user is on the free tier.                       *)
Init ==
    /\ now = StartClock
    /\ users = [u \in Users |-> NoRow]
    /\ operations_log = EmptyBag
    /\ cache = [k \in Keys |-> NoValue]
    /\ keyboards = [u \in Users |-> {}]
    /\ last = Seen("init", 0, "none", NoUsage, "none", FALSE)
    /\ staged = NoFiles
    /\ job = NoJob

LogFull == BagCardinality(operations_log) >= MaxLog

(* The outcomes of a call that may raise: TRUE when it returns.  A lookup  *)
(* in users that raises is told apart from one that returns only by a      *)
(* premium row: it yields None, which both callers treat as a free user    *)
(* (the insert start_command then tries raises on the existing row).       *)
Outcomes == BOOLEAN

LookupOutcomes(u) ==
    IF users[u].found /\ users[u].is_premium THEN BOOLEAN ELSE {TRUE}

(* The clock advances; Redis drops the keys whose time to live has run out *)
Tick ==
    /\ now + ClockStep <= MaxClock
    /\ now' = now + ClockStep
    /\ cache' = [k \in Keys |->
                    IF cache[k].found /\ cache[k].expires <= now'
                    THEN NoValue ELSE cache[k]]
    /\ last' = Seen("tick", 0, "none", NoUsage, "none", FALSE)
    /\ UNCHANGED <<users, operations_log, keyboards>>

(* /start, or the main_menu button (from_button): with a callback query    *)
(* update.message is None, so reply_text raises after the user row is      *)
(* made and before the operation is logged.                                *)
start_command(u, from_button) ==
    \E get_ok \in LookupOutcomes(u) :
        LET user_data == get_user(users, u, get_ok)
        IN  /\ \/ user_data.found /\ users' = users
               \/ /\ ~user_data.found
                  /\ \E create_ok \in Outcomes :
                        users' = create_user(users, u, create_ok)
            /\ \/ /\ ~from_button
                  /\ ~LogFull
                  /\ \E log_ok \in Outcomes :
                        operations_log' =
                            log_operation(operations_log, u, now, log_ok)
                  /\ last' = Seen("start_command", u, "welcome",
                                  NoUsage, "none", FALSE)
               \/ (* reply_text raises *)
                  /\ operations_log' = operations_log
                  /\ last' = Seen("start_command", u, "crashed",
                                  NoUsage, "none", FALSE)
            /\ UNCHANGED <<now, cache, keyboards>>

help_command(u) ==
    /\ last' = Seen("help_command", u, "help", NoUsage, "none", FALSE)
    /\ UNCHANGED <<now, users, operations_log, cache, keyboards>>

(* /cancel is among the commands main() announces to Telegram, and no      *)
(* handler is registered for it: the update is dropped.                    *)
cancel_command(u) ==
    /\ last' = Seen("cancel", u, "unhandled", NoUsage, "none", FALSE)
    /\ UNCHANGED <<now, users, operations_log, cache, keyboards>>

(* RejectUpload that records the rejected upload as an operation *)
RejectUploadCharged(u, outcome, usage, raised, c) ==
    /\ last' = Seen("handle_document", u, outcome, usage, raised, FALSE)
    /\ cache' = c
    /\ operations_log' = log_operation(operations_log, u, now, TRUE)
    /\ UNCHANGED <<now, users, keyboards>>

(* handle_document answers and returns without offering the operations *)
RejectUpload(u, outcome, usage, raised, c) ==
    /\ last' = Seen("handle_document", u, outcome, usage, raised, FALSE)
    /\ cache' = c
    /\ UNCHANGED <<now, users, operations_log, keyboards>>

(* The ceiling of the tier; None and a row without is_premium are free *)
Limit(user_data) ==
    IF user_data.found /\ user_data.is_premium
    THEN PREMIUM_DAILY_LIMIT ELSE FREE_DAILY_LIMIT

(* The name, the size and the quota are checked in this order; an upload  *)
(* that passes is answered with the operation keyboard of its file id,     *)
(* unless the reply raises (not_sent).                                     *)
handle_document(u, document) ==
    IF ~EndsWith(LowerStr(document.file_name), <<".", "p", "d", "f">>)
    THEN RejectUpload(u, "pdf_only", NoUsage, "none", cache)
    ELSE IF document.file_size > MAX_FILE_SIZE
    THEN RejectUpload(u, "too_large", NoUsage, "none", cache)
    ELSE \E get_ok \in LookupOutcomes(u), fault \in UsageFaults :
         \E r \in {get_daily_usage(cache, operations_log, u, now, fault)} :
             IF r.usage >= Limit(get_user(users, u, get_ok))
             THEN RejectUpload(u, "limit_reached", r.usage, r.raised, r.cache)
             ELSE \E sent \in Outcomes :
                  /\ cache' = r.cache
                  /\ keyboards' = IF sent
                                  THEN [keyboards EXCEPT
                                          ![u] = @ \cup {document.file_id}]
                                  ELSE keyboards
                  /\ last' = Seen("handle_document", u,
                                  IF sent THEN "offered" ELSE "not_sent",
                                  r.usage, r.raised, FALSE)
                  /\ UNCHANGED <<now, users, operations_log>>

ExtractFaults ==
    {"none", "edit_wait", "get_file", "send_document", "edit_done", "log_insert"}

(* The except branch of process_extract_text, after the engine ran or not *)
ExtractFailed(u, engine) ==
    last' = Seen("extract_text", u, "failed", NoUsage, "none", engine)

(* fault names the call that raises.  An edit_message_text that succeeds   *)
(* replaces the message and so takes its keyboard away; when the first one *)
(* raises, the one of the except branch succeeds or raises in its turn.    *)
process_extract_text(u, file_id, fault) ==
    LET gone == [keyboards EXCEPT ![u] = @ \ {file_id}]
        text == extract_text(Content(file_id))
    IN  IF fault = "edit_wait"
        THEN /\ ExtractFailed(u, FALSE)
             /\ \E told \in Outcomes :
                   keyboards' = IF told THEN gone ELSE keyboards
             /\ UNCHANGED <<now, users, operations_log, cache>>
        ELSE /\ keyboards' = gone
             /\ UNCHANGED <<now, users, cache>>
             /\ IF fault = "get_file"
                THEN ExtractFailed(u, FALSE) /\ UNCHANGED operations_log
                ELSE IF Corrupt(file_id)
                THEN ExtractFailed(u, TRUE) /\ UNCHANGED operations_log
                ELSE IF Strip(text) = <<>>
                THEN /\ last' = Seen("extract_text", u, "no_text",
                                     NoUsage, "none", TRUE)
                     /\ UNCHANGED operations_log
                ELSE IF fault \in {"send_document", "edit_done"}
                THEN ExtractFailed(u, TRUE) /\ UNCHANGED operations_log
                ELSE /\ ~LogFull
                     /\ operations_log' =
                           log_operation(operations_log, u, now,
                                         fault # "log_insert")
                     /\ last' = Seen("extract_text", u, "done",
                                     NoUsage, "none", TRUE)

(* The handler raises AttributeError, or has no branch for the button: in  *)
(* both cases nothing is sent and nothing changes.                         *)
CallbackDropped(u) ==
    /\ last' = Seen("callback", u, "no_reply", NoUsage, "none", FALSE)
    /\ UNCHANGED <<now, users, operations_log, cache, keyboards>>

(* A button press; data is the callback_data up to the file id *)
callback_handler(u, data, file_id) ==
    CASE data = "main_menu" -> start_command(u, TRUE)
      [] data = "help" -> help_command(u)
      [] data \in {"my_stats", "premium"} ->
            (* show_user_stats and show_premium_info are not defined *)
            CallbackDropped(u)
      [] data = "extract_text_" ->
            \E fault \in ExtractFaults : process_extract_text(u, file_id, fault)
      [] data \in {"extract_images_", "compress_"} ->
            (* process_extract_images and process_compress are not defined *)
            CallbackDropped(u)
      [] OTHER -> CallbackDropped(u)

(* The file ids a press of the button can carry: those of the keyboards on *)
(* display.  Only extract_text_ has a handler that looks at the file id.   *)
Pressable(u, data) ==
    IF data = "extract_text_" \/ keyboards[u] = {} THEN keyboards[u]
    ELSE {CHOOSE f \in keyboards[u] : TRUE}

(* The button pressed is one of a keyboard the bot has sent: a menu button *)
(* of /start or /help, or a button of an operation keyboard on display.    *)
Next ==
    \/ Tick /\ UNCHANGED library
    \/ \E u \in Users : start_command(u, FALSE) /\ UNCHANGED library
    \/ \E u \in Users : help_command(u) /\ UNCHANGED library
    \/ \E u \in Users : cancel_command(u) /\ UNCHANGED library
    \/ \E u \in Users, d \in Documents :
          handle_document(u, d) /\ UNCHANGED library
    \/ \E u \in Users, data \in MenuButtons :
          callback_handler(u, data, "none") /\ UNCHANGED library
    \/ \E u \in Users, data \in Buttons :
          \E f \in Pressable(u, data) :
              callback_handler(u, data, f) /\ UNCHANGED library

Spec == Init /\ [][Next]_vars

(* The behaviours made of uploads and button presses alone: no /start, so  *)
(* every row of operations_log is an extraction.                           *)
NextOperations ==
    \/ Tick /\ UNCHANGED library
    \/ \E u \in Users, d \in Documents :
          handle_document(u, d) /\ UNCHANGED library
    \/ \E u \in Users, data \in Buttons :
          \E f \in Pressable(u, data) :
              callback_handler(u, data, f) /\ UNCHANGED library

SpecOperations == Init /\ [][NextOperations]_vars

----------------------------------------------------------------------------
(* Calls of FileManager.  No handler makes them: they are made by a caller *)
(* of the class, with the files the earlier calls left under base_path.    *)

FileUsers == {1, 2}

FileData == {"x", "y"}

(* older_than_hours; 24 when the caller gives none *)
RetentionHours == {0, 12, 24}

bot == <<users, operations_log, cache, keyboards, last>>

(* The clock advances between two calls *)
FileTick ==
    /\ now + ClockStep <= MaxClock
    /\ now' = now + ClockStep
    /\ UNCHANGED <<bot, staged, job>>

save_call(user_id, file_data, filename) ==
    \E r \in {save_temp_file(staged, file_data, filename, user_id, now)} :
        /\ staged' = r.files
        /\ job' = [op |-> "save_temp_file", user_id |-> user_id,
                   file_data |-> file_data, path |-> r.path]
        /\ UNCHANGED <<now, bot>>

cleanup_call(user_id, older_than_hours) ==
    \E r \in {cleanup_user_files(staged, user_id, older_than_hours, now)} :
        /\ staged' = r.files
        /\ job' = [op |-> "cleanup_user_files", user_id |-> user_id,
                   older_than_hours |-> older_than_hours,
                   deleted |-> r.deleted]
        /\ UNCHANGED <<now, bot>>

NextFiles ==
    \/ FileTick
    \/ \E u \in FileUsers, data \in FileData : save_call(u, data, PdfName)
    \/ \E u \in FileUsers, h \in RetentionHours : cleanup_call(u, h)

SpecFiles == Init /\ [][NextFiles]_vars

----------------------------------------------------------------------------
(* Calls of PDFProcessor and ValidationHelper, with arguments drawn from   *)
(* the sets below.  A behaviour makes one call, and may go on to merge the *)
(* parts a split returned and to extract the text of what a merge returned *)

MaxPageIndex == 6

(* Pages, by their text; NoText is a page without text *)
PageA == <<" ", "a">>
PageB == <<"b", "\n">>
PageC == <<"c">>
PageD == <<"d", " ", "d">>
PageE == <<"e">>

Password(c, n) == [i \in 1..n |-> c]

Passwords ==
    {Password("x", MinPasswordLen - 1), Password("x", MinPasswordLen),
     Password("y", MinPasswordLen), Password("x", MaxPasswordLen),
     Password("x", MaxPasswordLen + 1)}

PlainPdfs ==
    {Pdf(<<>>), Pdf(<<PageA>>), Pdf(<<PageA, PageB>>),
     Pdf(<<NoText, NoText>>), Pdf(<<PageA, NoText, PageC>>),
     Pdf(<<PageA, PageB, PageC, PageD, PageE>>)}

PdfBytes ==
    PlainPdfs \cup {Garbage, Encrypted(<<PageA, PageB>>, Password("x", MinPasswordLen))}

(* Half-open page ranges (start, end); an end may pass the last page *)
PageRanges == (0..MaxPageIndex) \X ((0..MaxPageIndex) \cup {10})

(* The range a list of two ends with *)
SecondRanges == {<<2, 10>>, <<0, 1>>, <<1, MaxPageIndex>>, <<MaxPageIndex, 0>>}

PageRangeLists ==
    {<<>>} \cup {<<r>> : r \in PageRanges}
           \cup {<<r1, r2>> : r1 \in PageRanges, r2 \in SecondRanges}

PdfFileLists ==
    {<<>>} \cup {<<a>> : a \in PdfBytes}
           \cup {<<a, b>> : a \in PdfBytes, b \in PdfBytes}
           \cup {<<Pdf(<<PageA, PageB>>), b, Pdf(<<PageC>>)>> : b \in PdfBytes}

split_call(pdf_bytes, page_ranges) ==
    /\ job = NoJob
    /\ job' = [op |-> "split_pdf", pdf_bytes |-> pdf_bytes,
               page_ranges |-> page_ranges,
               result |-> split_pdf(pdf_bytes, page_ranges)]
    /\ UNCHANGED <<now, bot, staged>>

merge_call(pdf_files) ==
    /\ job = NoJob
    /\ job' = [op |-> "merge_pdfs", pdf_files |-> pdf_files, split |-> <<>>,
               result |-> merge_pdfs(pdf_files)]
    /\ UNCHANGED <<now, bot, staged>>

(* The parts a split returned are merged in the order it returned them;    *)
(* split keeps the call of the split.                                      *)
merge_parts ==
    /\ job.op = "split_pdf"
    /\ job.result.ok
    /\ job' = [op |-> "merge_pdfs", pdf_files |-> job.result.value,
               split |-> <<job>>,
               result |-> merge_pdfs(job.result.value)]
    /\ UNCHANGED <<now, bot, staged>>

extract_call(pdf_bytes) ==
    /\ job = NoJob
    /\ job' = [op |-> "extract_text", pdf_bytes |-> pdf_bytes, split |-> <<>>,
               result |-> extract_text_bytes(pdf_bytes)]
    /\ UNCHANGED <<now, bot, staged>>

extract_merged ==
    /\ job.op = "merge_pdfs"
    /\ job.result.ok
    /\ job' = [op |-> "extract_text", pdf_bytes |-> job.result.value,
               split |-> job.split,
               result |-> extract_text_bytes(job.result.value)]
    /\ UNCHANGED <<now, bot, staged>>

encrypt_call(pdf_bytes, password) ==
    /\ job = NoJob
    /\ job' = [op |-> "encrypt_pdf", pdf_bytes |-> pdf_bytes,
               password |-> password,
               result |-> encrypt_pdf(pdf_bytes, password)]
    /\ UNCHANGED <<now, bot, staged>>

decrypt_call(pdf_bytes, password) ==
    /\ job = NoJob
    /\ job' = [op |-> "decrypt_pdf", pdf_bytes |-> pdf_bytes,
               password |-> password,
               result |-> decrypt_pdf(pdf_bytes, password)]
    /\ UNCHANGED <<now, bot, staged>>

validate_call(password) ==
    /\ job = NoJob
    /\ job' = [op |-> "validate_password", password |-> password,
               result |-> validate_password(password)]
    /\ UNCHANGED <<now, bot, staged>>

NextPdf ==
    \/ \E d \in PdfBytes, rs \in PageRangeLists : split_call(d, rs)
    \/ \E ds \in PdfFileLists : merge_call(ds)
    \/ merge_parts
    \/ \E d \in PdfBytes : extract_call(d)
    \/ extract_merged
    \/ \E d \in PdfBytes, pw \in Passwords : encrypt_call(d, pw)
    \/ \E d \in PdfBytes, pw \in Passwords : decrypt_call(d, pw)
    \/ \E pw \in Passwords : validate_call(pw)

SpecPdf == Init /\ [][NextPdf]_vars

----------------------------------------------------------------------------
(* What the claims speak of *)

(* The rows of a user that were logged on a day *)
CountOnDay(log, user_id, day) ==
    SumOf(log, {r \in DOMAIN log :
                  /\ r.user_id = user_id
                  /\ Today(r.timestamp) = day})

(* The user's usage of the current day, and the ceiling it is compared to *)
UsageNow(u) == CountOnDay(operations_log, u, Today(now))

Ceiling(u) == Limit(users[u])

(* The upload handled last got as far as asking for the daily usage *)
UsageAsked == last.handler = "handle_document" /\ last.usage # NoUsage

(* What get_daily_usage answers when no call raises *)
UsageAnswer(c, log, u, t) == get_daily_usage(c, log, u, t, "none").usage

Rejections == {"pdf_only", "too_large", "limit_reached"}

(* C1: a user whose usage of the day is at or above the ceiling gets no    *)
(* transformation: the engine is never invoked for a user whose usage,     *)
(* when the button is pressed, is at or above the ceiling.                 *)
C1_NoEngineAtCeiling ==
    [][last'.engine => UsageNow(last'.user) < Ceiling(last'.user)]_vars

(* C2: with one slot left under the ceiling (usage = ceiling - 1), of two  *)
(* requests of a user that are in flight together one is admitted: an      *)
(* upload is not admitted at usage = ceiling - 1 while another admitted    *)
(* request of the user still waits to be executed.                         *)
C2_OneAdmittedAtLastSlot ==
    [][(/\ last'.handler = "handle_document"
        /\ last'.outcome = "offered"
        /\ UsageNow(last'.user) = Ceiling(last'.user) - 1)
       => keyboards[last'.user] = {}]_vars

(* C3: after k recorded operations get_daily_usage answers k, whatever the *)
(* order of queries and recordings: when no call raises, the usage an      *)
(* upload is checked against is the number of operations recorded today.   *)
C3_UsageIsRecordedCount ==
    (UsageAsked /\ last.fault = "none") => last.usage = UsageNow(last.user)

(* C4: every cached counter equals the number of rows of operations_log    *)
(* of its user on its day.                                                 *)
C4_CacheEqualsLog ==
    \A u \in Users, d \in Days :
        cache[CacheKey(u, d)].found =>
            StrToInt(cache[CacheKey(u, d)].value) = CountOnDay(operations_log, u, d)

(* C5: on a cache miss get_daily_usage answers the number of rows of the   *)
(* user today and stores it in the cache; it does not answer zero while    *)
(* the log holds a row of the user today.  Stated for the misses that find *)
(* such a row in the log.                                                  *)
C5_MissRebuildsFromLog ==
    [][(/\ last'.handler = "handle_document"
        /\ last'.usage # NoUsage
        /\ last'.fault # "redis_get"
        /\ ~Truthy(cache[CacheKey(last'.user, Today(now))])
        /\ UsageNow(last'.user) >= 1)
       => (/\ last'.usage = UsageNow(last'.user)
           /\ cache'[CacheKey(last'.user, Today(now))].found
           /\ cache'[CacheKey(last'.user, Today(now))].value
                 = IntToStr(UsageNow(last'.user)))]_vars

(* C6: when the cache read or the cache write raises and the log can be    *)
(* read, get_daily_usage answers the number of rows of the user today.     *)
C6_CacheDownFallsBackToLog ==
    (UsageAsked /\ last.fault \in {"redis_get", "setex"})
        => last.usage = UsageNow(last.user)

(* C7: every run of the engine is recorded in operations_log exactly once, *)
(* whether the engine succeeds, raises or yields no text.                  *)
C7_EveryRunRecordedOnce ==
    [][last'.engine =>
          BagCardinality(operations_log') = BagCardinality(operations_log) + 1]_vars

(* C8: an upload rejected for its file type, its size or an exhausted      *)
(* quota appends no row to operations_log and leaves the usage of every    *)
(* user, as counted in the log and as get_daily_usage answers it,          *)
(* unchanged.                                                              *)
C8_RejectedUploadNotCharged ==
    [][(last'.handler = "handle_document" /\ last'.outcome \in Rejections)
       => (/\ operations_log' = operations_log
           /\ \A u \in Users :
                UsageAnswer(cache', operations_log', u, now')
                    = UsageAnswer(cache, operations_log, u, now))]_vars

(* An upload was rejected for the quota, with rows in the log *)
C8_Witness ==
    /\ last.handler = "handle_document"
    /\ last.outcome = "limit_reached"
    /\ UsageNow(last.user) >= FREE_DAILY_LIMIT

(* C9: usage is scoped to the calendar day: the usage an upload is checked *)
(* against never exceeds the number of rows logged on the day of the       *)
(* query, so rows of an earlier day and a counter cached for another day   *)
(* never count; and a counter cached for a day never exceeds the rows of   *)
(* that day.                                                               *)
C9_UsageScopedToDay ==
    /\ UsageAsked => last.usage <= UsageNow(last.user)
    /\ \A u \in Users, d \in Days :
          cache[CacheKey(u, d)].found =>
              StrToInt(cache[CacheKey(u, d)].value)
                  <= CountOnDay(operations_log, u, d)

(* A query on a later day, answered from the log of that day, while the    *)
(* counter cached the day before is still in the cache and is larger.      *)
C9_Witness ==
    /\ UsageAsked
    /\ last.fault = "none"
    /\ Today(now) > 0
    /\ cache[CacheKey(last.user, Today(now) - 1)].found
    /\ last.usage < StrToInt(cache[CacheKey(last.user, Today(now) - 1)].value)
    /\ last.usage = UsageNow(last.user)

(* C10: after a cancel no operation of the user is pending any more: no    *)
(* operation keyboard of the user is left to press.                        *)
C10_CancelEndsPending ==
    [][last'.handler = "cancel" => keyboards'[last'.user] = {}]_vars

(* The outcomes with which process_extract_text ends an operation *)
Terminal == {"done", "failed", "no_text"}

(* C11: after a terminal outcome of an operation (completed or failed) the *)
(* document of the operation is no longer retrievable: its handle, the     *)
(* file id on the operation keyboard, can no longer be used to run an      *)
(* operation.                                                              *)
C11_TerminalReleasesHandle ==
    [][(last'.handler = "extract_text" /\ last'.outcome \in Terminal)
       => \E f \in keyboards[last'.user] :
             keyboards'[last'.user] = keyboards[last'.user] \ {f}]_vars

(* C19: every operation selected on the operation keyboard produces a      *)
(* terminal notification to the user, a result or a reported failure: no   *)
(* press of a button is dropped without a reply.                           *)
C19_SelectionNotified ==
    [][last'.handler = "callback" => last'.outcome # "no_reply"]_vars

(* The updates that execute no transformation *)
NonTransformations == {"start_command", "help_command", "cancel", "callback"}

(* C20: only executed transformations count toward the daily usage: /start *)
(* and the other updates that execute no transformation do not increase    *)
(* what get_daily_usage computes for the user and the day.                 *)
C20_StartNotCounted ==
    [][last'.handler \in NonTransformations
       => \A u \in Users :
             UsageAnswer(cache', operations_log', u, now')
                 <= UsageAnswer(cache, operations_log, u, now)]_vars

(* C12: cleanup_user_files(u) leaves every file outside the directory of u *)
(* as it was, content and modification time, and in the directory of u     *)
(* removes the files older than the cutoff and no other: what it does not  *)
(* remove is unchanged, and it adds no file.  A step that ends with a      *)
(* cleanup as the call made last, the clock standing still, is that call.  *)
C12_CleanupStaysInPartition ==
    [][(job'.op = "cleanup_user_files" /\ now' = now) =>
         LET cutoff == now - job'.older_than_hours * SecondsPerHour
         IN  /\ DOMAIN staged' \subseteq DOMAIN staged
             /\ \A q \in DOMAIN staged' : staged'[q] = staged[q]
             /\ \A q \in DOMAIN staged \ DOMAIN staged' :
                   /\ q[1] = user_dir(job'.user_id)
                   /\ staged[q].mtime < cutoff
             /\ \A q \in DOMAIN staged :
                   (q[1] = user_dir(job'.user_id) /\ staged[q].mtime < cutoff)
                       => q \notin DOMAIN staged']_vars

(* A cleanup removed a file of its user and kept a younger file of that    *)
(* user, while another user has a file old enough for the same cutoff.     *)
C12_Witness ==
    /\ job.op = "cleanup_user_files"
    /\ job.deleted # {}
    /\ \E q \in DOMAIN staged : q[1] = user_dir(job.user_id)
    /\ \E q \in DOMAIN staged :
          /\ q[1] # user_dir(job.user_id)
          /\ staged[q].mtime < now - job.older_than_hours * SecondsPerHour

(* C21: save_temp_file returns a path at which no file is present: the     *)
(* file it writes is a new one, and every file staged before the call      *)
(* keeps its content and its modification time, also when the user, the    *)
(* original file name and the second of the clock are those of an earlier  *)
(* save.  A step that ends with a save as the call made last, the clock    *)
(* standing still, is that call.                                           *)
C21_SavedFilesNeverCollide ==
    [][(job'.op = "save_temp_file" /\ now' = now) =>
         /\ job'.path \notin DOMAIN staged
         /\ \A q \in DOMAIN staged : staged'[q] = staged[q]]_vars

(* A document of n pages: bytes that parse and are not encrypted *)
Readable(pdf_bytes) == pdf_bytes.readable /\ pdf_bytes.password = <<>>

(* Pages start .. min(end, n) - 1 of the pages, counted from 0 *)
PagesOfRange(pages, range) ==
    LET start == range[1]
        last_page == (IF range[2] < Len(pages) THEN range[2] ELSE Len(pages)) - 1
    IN  [i \in 1..(IF last_page < start THEN 0 ELSE last_page - start + 1)
            |-> pages[start + i]]

(* C13: split_pdf on a document of n pages returns one output per range,   *)
(* in the order of the ranges, the output for (start, end) holding pages   *)
(* start .. min(end, n) - 1 in order; an end beyond n raises nothing; with *)
(* no ranges it returns the n pages as n outputs of one page.              *)
C13_SplitOnePartPerRange ==
    (job.op = "split_pdf" /\ Readable(job.pdf_bytes)) =>
        LET pages == job.pdf_bytes.pages
            ranges == job.page_ranges
            parts == job.result.value
        IN  /\ job.result.ok
            /\ IF ranges = <<>>
               THEN /\ Len(parts) = Len(pages)
                    /\ \A i \in 1..Len(pages) : parts[i] = Pdf(<<pages[i]>>)
               ELSE /\ Len(parts) = Len(ranges)
                    /\ \A i \in 1..Len(ranges) :
                          parts[i] = Pdf(PagesOfRange(pages, ranges[i]))

(* Ranges (0,2),(2,10) on five pages gave pages 0-1 and pages 2-4 *)
C13_Witness ==
    /\ job.op = "split_pdf"
    /\ Len(job.pdf_bytes.pages) = 5
    /\ job.page_ranges = << <<0, 2>>, <<2, 10>> >>
    /\ job.result.ok
    /\ job.result.value = <<Pdf(<<PageA, PageB>>), Pdf(<<PageC, PageD, PageE>>)>>

(* The number of pages of the first k inputs *)
RECURSIVE PagesBefore(_, _)
PagesBefore(pdf_files, k) ==
    IF k = 0 THEN 0
    ELSE PagesBefore(pdf_files, k - 1) + Len(pdf_files[k].pages)

(* C14: merge_pdfs on readable inputs returns one document whose pages are *)
(* the pages of the inputs, in the order of the inputs and in their order  *)
(* within each input; when an input cannot be read the call fails and      *)
(* returns no output.                                                      *)
C14_MergeConcatenates ==
    job.op = "merge_pdfs" =>
        LET pdf_files == job.pdf_files
            n == Len(pdf_files)
        IN  IF \A i \in 1..n : Readable(pdf_files[i])
            THEN /\ job.result.ok
                 /\ Readable(job.result.value)
                 /\ Len(job.result.value.pages) = PagesBefore(pdf_files, n)
                 /\ \A i \in 1..n : \A k \in 1..Len(pdf_files[i].pages) :
                       job.result.value.pages[PagesBefore(pdf_files, i - 1) + k]
                           = pdf_files[i].pages[k]
            ELSE /\ ~job.result.ok
                 /\ job.result.value = <<>>

(* Two pages then three pages gave five pages, those of the first in front *)
C14_Witness ==
    /\ job.op = "merge_pdfs"
    /\ job.split = <<>>
    /\ job.pdf_files = <<Pdf(<<PageA, PageB>>), Pdf(<<PageA, NoText, PageC>>)>>
    /\ job.result.ok
    /\ job.result.value.pages = <<PageA, PageB, PageA, NoText, PageC>>

(* The text of what merging the parts of a split returned, the split being *)
(* one of a readable document of several pages into its single pages       *)
SplitMergeExtracted ==
    /\ job.op = "extract_text"
    /\ job.split # <<>>
    /\ job.split[1].page_ranges = <<>>
    /\ Readable(job.split[1].pdf_bytes)
    /\ Len(job.split[1].pdf_bytes.pages) >= 2

(* C15: for a valid document d of several pages, the text extracted from   *)
(* the merge of the parts of split_pdf(d), in their order, is the text     *)
(* extracted from d.                                                       *)
C15_SplitMergeKeepsText ==
    SplitMergeExtracted =>
        job.result = extract_text_bytes(job.split[1].pdf_bytes)

(* The round trip of the document of five pages gave its text *)
C15_Witness ==
    /\ SplitMergeExtracted
    /\ Len(job.split[1].pdf_bytes.pages) = 5
    /\ job.result.ok
    /\ Len(job.result.value) > 5

(* C16: extract_text gives the texts of the pages in order, joined by a    *)
(* blank line and trimmed, a page without text giving an empty segment; a  *)
(* document whose pages all yield no text is a successful extraction: the  *)
(* operation on it, when no call raises, ends as completed and not as      *)
(* turned down.                                                            *)
C16_NoTextIsSuccess ==
    [][(/\ last'.handler = "extract_text"
        /\ last'.engine
        /\ last'.outcome # "failed")
       => last'.outcome = "done"]_vars

(* C17: decrypt_pdf with a wrong password on an encrypted document returns *)
(* no output and fails with the cause IncorrectPassword, told apart from   *)
(* every other failure; on a document that is not encrypted it returns the *)
(* same pages in the same order.                                           *)
C17_WrongPasswordIsTyped ==
    (job.op = "decrypt_pdf" /\ job.pdf_bytes.readable) =>
        IF job.pdf_bytes.password = <<>>
        THEN job.result.ok /\ job.result.value = Pdf(job.pdf_bytes.pages)
        ELSE job.password # job.pdf_bytes.password =>
                /\ ~job.result.ok
                /\ job.result.value = <<>>
                /\ job.result.error = "IncorrectPassword"

(* C18: a password is accepted exactly when its length is 4 to 128, and    *)
(* encrypt_pdf and decrypt_pdf are not executed with a password outside    *)
(* that range.                                                             *)
C18_PasswordLengthEnforced ==
    /\ job.op = "validate_password" =>
          (job.result[1] <=> Len(job.password) \in MinPasswordLen..MaxPasswordLen)
    /\ (job.op \in {"encrypt_pdf", "decrypt_pdf"} /\ job.result.ok) =>
          Len(job.password) \in MinPasswordLen..MaxPasswordLen

====
